---------------------------- MODULE Spec2Model ----------------------------
(***************************************************************************)
(* TOON codec of n8n-nodes-json-to-toon: the JSON -> TOON encoder          *)
(* (nodes/JsonToToon.node.ts) and the TOON -> JSON decoder                 *)
(* (nodes/ToonToJson.node.ts), with the batch loop of both nodes.          *)
(*                                                                         *)
(* A JavaScript string is a sequence of one-character strings.  A          *)
(* JavaScript value is a record [t |-> type, v |-> payload]; an object's   *)
(* payload is the sequence of its <<key, value>> properties in the order   *)
(* they were created, and the order JavaScript enumerates them in is       *)
(* computed from it by OwnEntries.                                         *)
(***************************************************************************)
EXTENDS Integers, Sequences, FiniteSets

VARIABLES
    pc,             \* position of the run
    node,           \* which node's execute is running
    operation,      \* JsonToToon: getNodeParameter('operation')
    jsonInput,      \* JsonToToon: getNodeParameter('jsonInput')
    options,        \* getNodeParameter('options') after the defaults are applied
    outputFormat,   \* ToonToJson: getNodeParameter('outputFormat')
    toonOutput,     \* result of the encoder
    toonInput,      \* ToonToJson: getNodeParameter('toonInput')
    jsonOutput,     \* result of parseToon
    jsonStr,        \* estimateTokenSavings: first argument
    toonStr,        \* estimateTokenSavings: second argument
    tokenSavingsEstimate,
    items,          \* getInputData() of the batch
    continueOnFail, \* this.continueOnFail()
    i,              \* loop index of execute (0-based)
    returnData,     \* the list execute builds
    thrown          \* the NodeOperationError that left execute, or NoError

vars == <<pc, node, operation, jsonInput, options, outputFormat, toonOutput,
          toonInput, jsonOutput, jsonStr, toonStr, tokenSavingsEstimate,
          items, continueOnFail, i, returnData, thrown>>

-----------------------------------------------------------------------------
(* Bounds of the model. *)

\* longest string value of an encoder input
MaxValLen == 2
\* most properties of an encoder input object
MaxProps == 2
\* most elements of an encoder input array
MaxArr == 2
\* longest decoder input after its optional header
MaxTextLen == 3
\* longest string handed to estimateTokenSavings
MaxEstLen == 9
\* most items of a batch
MaxItems == 3

-----------------------------------------------------------------------------
(* JavaScript strings. *)

Quote == "\""
NewLine == "\n"

\* the characters String.prototype.trim removes that occur in the model
WhiteSpace == {" ", "\n", "\t", "\r"}

Digits == <<"0", "1", "2", "3", "4", "5", "6", "7", "8", "9">>

IsDigit(c) == \E d \in 1..10 : Digits[d] = c

DigitValue(c) == (CHOOSE d \in 1..10 : Digits[d] = c) - 1

\* "@schema"
SchemaTag == <<"@", "s", "c", "h", "e", "m", "a">>

StrTrue == <<"t", "r", "u", "e">>
StrFalse == <<"f", "a", "l", "s", "e">>
StrNull == <<"n", "u", "l", "l">>
StrUndefined == <<"u", "n", "d", "e", "f", "i", "n", "e", "d">>
StrObjectObject ==
    <<"[", "o", "b", "j", "e", "c", "t", " ", "O", "b", "j", "e", "c", "t", "]">>
StrLength == <<"l", "e", "n", "g", "t", "h">>
StrField == <<"f", "i", "e", "l", "d">>

\* s.includes(c) for a one-character c
Includes(s, c) == \E k \in 1..Len(s) : s[k] = c

\* s.startsWith(p)
StartsWith(s, p) == Len(s) >= Len(p) /\ SubSeq(s, 1, Len(p)) = p

\* s.indexOf(p), 1-based, 0 when p does not occur
IndexOf(s, p) ==
    LET at == {k \in 1..(Len(s) - Len(p) + 1) : SubSeq(s, k, k + Len(p) - 1) = p}
    IN IF at = {} THEN 0 ELSE CHOOSE k \in at : \A m \in at : k <= m

\* s.replace(p, ''): the first occurrence of the string p is removed
RemoveFirst(s, p) ==
    LET k == IndexOf(s, p)
    IN IF k = 0 THEN s
       ELSE SubSeq(s, 1, k - 1) \o SubSeq(s, k + Len(p), Len(s))

RECURSIVE TrimStart(_)
TrimStart(s) ==
    IF Len(s) > 0 /\ s[1] \in WhiteSpace THEN TrimStart(Tail(s)) ELSE s

RECURSIVE TrimEnd(_)
TrimEnd(s) ==
    IF Len(s) > 0 /\ s[Len(s)] \in WhiteSpace
    THEN TrimEnd(SubSeq(s, 1, Len(s) - 1))
    ELSE s

\* s.trim()
Trim(s) == TrimEnd(TrimStart(s))

\* s.split(c) for a one-character c: one more part than c occurs in s
RECURSIVE Split(_, _)
Split(s, c) ==
    IF Includes(s, c)
    THEN LET k == CHOOSE k \in 1..Len(s) :
                      s[k] = c /\ \A m \in 1..(k - 1) : s[m] # c
         IN <<SubSeq(s, 1, k - 1)>> \o Split(SubSeq(s, k + 1, Len(s)), c)
    ELSE <<s>>

\* parts.join(d) of a list of strings, d a string
RECURSIVE Join(_, _)
Join(parts, d) ==
    IF Len(parts) = 0 THEN <<>>
    ELSE IF Len(parts) = 1 THEN parts[1]
    ELSE parts[1] \o d \o Join(Tail(parts), d)

\* s.replace(/"/g, '""')
RECURSIVE DoubleQuotes(_)
DoubleQuotes(s) ==
    IF Len(s) = 0 THEN <<>>
    ELSE (IF s[1] = Quote THEN <<Quote, Quote>> ELSE <<s[1]>>)
         \o DoubleQuotes(Tail(s))

\* String(n) of a non-negative integer
RECURSIVE DigitsOf(_)
DigitsOf(n) ==
    IF n < 10 THEN <<Digits[n + 1]>>
    ELSE DigitsOf(n \div 10) \o <<Digits[(n % 10) + 1]>>

\* the value of a non-empty string of decimal digits
RECURSIVE DecimalValue(_)
DecimalValue(s) ==
    IF Len(s) = 0 THEN 0
    ELSE 10 * DecimalValue(SubSeq(s, 1, Len(s) - 1)) + DigitValue(s[Len(s)])

-----------------------------------------------------------------------------
(* JavaScript values. *)

Str(s) == [t |-> "string", v |-> s]
Num(n) == [t |-> "number", v |-> n]
Bool(b) == [t |-> "boolean", v |-> b]
Null == [t |-> "null", v |-> 0]
Undefined == [t |-> "undefined", v |-> 0]
Arr(a) == [t |-> "array", v |-> a]
Obj(e) == [t |-> "object", v |-> e]

\* a thrown exception with its message
Throw(msg) == [t |-> "throw", v |-> msg]
IsThrow(x) == x.t = "throw"

\* Number(s) is NaN
NaN == [t |-> "NaN", v |-> 0]

\* an array index: the canonical decimal string of a non-negative integer
IsArrayIndex(key) ==
    /\ Len(key) > 0
    /\ \A k \in 1..Len(key) : IsDigit(key[k])
    /\ (Len(key) > 1 => key[1] # "0")

\* The order JavaScript enumerates the own properties of an ordinary object:
\* array-index keys in ascending numeric order, then the other keys in the
\* order they were created.
OwnEntries(e) ==
    LET idx == {k \in 1..Len(e) : IsArrayIndex(e[k][1])}
        rest == {k \in 1..Len(e) : ~IsArrayIndex(e[k][1])}
        Before(a, b) == DecimalValue(e[a][1]) < DecimalValue(e[b][1])
        RECURSIVE Sorted(_)
        Sorted(S) ==
            IF S = {} THEN <<>>
            ELSE LET a == CHOOSE a \in S : \A b \in S \ {a} : Before(a, b)
                 IN <<e[a]>> \o Sorted(S \ {a})
        RECURSIVE InOrder(_)
        InOrder(S) ==
            IF S = {} THEN <<>>
            ELSE LET a == CHOOSE a \in S : \A b \in S : a <= b
                 IN <<e[a]>> \o InOrder(S \ {a})
    IN Sorted(idx) \o InOrder(rest)

\* key in obj, for the own properties of an object
HasKey(e, key) == \E k \in 1..Len(e) : e[k][1] = key

\* obj[key] of an object that has the key
GetKey(e, key) == e[CHOOSE k \in 1..Len(e) : e[k][1] = key][2]

\* obj[key] = value: an existing property keeps its place
PutKey(e, key, value) ==
    IF HasKey(e, key)
    THEN [k \in 1..Len(e) |-> IF e[k][1] = key THEN <<key, value>> ELSE e[k]]
    ELSE Append(e, <<key, value>>)

\* Object.entries(x) of a value that is neither null nor undefined
ObjectEntries(x) ==
    CASE x.t = "object" -> OwnEntries(x.v)
      [] x.t = "array" -> [k \in 1..Len(x.v) |-> <<DigitsOf(k - 1), x.v[k]>>]
      [] x.t = "string" ->
            [k \in 1..Len(x.v) |-> <<DigitsOf(k - 1), Str(<<x.v[k]>>)>>]
      [] OTHER -> <<>>

\* x[key] of a value that is neither null nor undefined (own properties and
\* the length of arrays and strings; no key of the model names a method)
GetProp(x, key) ==
    CASE x.t = "object" ->
            IF HasKey(x.v, key) THEN GetKey(x.v, key) ELSE Undefined
      [] x.t = "array" ->
            IF key = StrLength THEN Num(Len(x.v))
            ELSE IF IsArrayIndex(key) /\ DecimalValue(key) < Len(x.v)
                 THEN x.v[DecimalValue(key) + 1]
                 ELSE Undefined
      [] x.t = "string" ->
            IF key = StrLength THEN Num(Len(x.v))
            ELSE IF IsArrayIndex(key) /\ DecimalValue(key) < Len(x.v)
                 THEN Str(<<x.v[DecimalValue(key) + 1]>>)
                 ELSE Undefined
      [] OTHER -> Undefined

\* String(x) and the join of an array, which call each other
RECURSIVE JsString(_)
JsString(x) ==
    CASE x.t = "string" -> x.v
      [] x.t = "number" -> DigitsOf(x.v)
      [] x.t = "boolean" -> IF x.v THEN StrTrue ELSE StrFalse
      [] x.t = "null" -> StrNull
      [] x.t = "undefined" -> StrUndefined
      [] x.t = "array" ->
            Join([k \in 1..Len(x.v) |->
                    IF x.v[k].t \in {"null", "undefined"} THEN <<>>
                    ELSE JsString(x.v[k])], <<",">>)
      [] OTHER -> StrObjectObject

\* value.join(',')
ArrayJoin(a) == JsString(Arr(a))

\* String(v ?? '')
StringOrEmpty(x) == IF x.t \in {"null", "undefined"} THEN <<>> ELSE JsString(x)

-----------------------------------------------------------------------------
(* Encoder: nodes/JsonToToon.node.ts *)

TypeErrorNullish == "TypeError: Cannot convert undefined or null to object"
TypeErrorRead == "TypeError: Cannot read properties of undefined or null"
TypeErrorIterable == "TypeError: arr is not iterable"

\* Object.assign(target, source)
ObjectAssign(target, source) ==
    LET src == OwnEntries(source)
        RECURSIVE Copy(_, _)
        Copy(k, acc) ==
            IF k > Len(src) THEN acc
            ELSE Copy(k + 1, PutKey(acc, src[k][1], src[k][2]))
    IN Copy(1, target)

\* flattenObject(obj, prefix, separator) of a value that is neither null nor
\* undefined: the properties of the result, in the order they were created
RECURSIVE flattenObject(_, _, _)
flattenObject(obj, prefix, separator) ==
    LET entries == ObjectEntries(obj)
        RECURSIVE Loop(_, _)
        Loop(k, result) ==
            IF k > Len(entries) THEN result
            ELSE LET key == entries[k][1]
                     value == entries[k][2]
                     newKey == IF Len(prefix) > 0
                               THEN prefix \o <<separator>> \o key
                               ELSE key
                 IN IF value.t = "object"
                    THEN Loop(k + 1, ObjectAssign(result,
                                 flattenObject(value, newKey, separator)))
                    ELSE IF value.t = "array"
                    THEN Loop(k + 1, PutKey(result, newKey, Str(ArrayJoin(value.v))))
                    ELSE Loop(k + 1, PutKey(result, newKey, value))
    IN Loop(1, <<>>)

\* escapeValue that wraps every value, whatever it holds
escapeValue_Always(value, delimiter) ==
    <<Quote>> \o DoubleQuotes(value) \o <<Quote>>

\* escapeValue(value, delimiter)
escapeValue(value, delimiter) ==
    IF Includes(value, delimiter) \/ Includes(value, NewLine)
    THEN <<Quote>> \o DoubleQuotes(value) \o <<Quote>>
    ELSE value

\* the schema line with its newline: `@schema${delimiter}${keys.join(delimiter)}\n`
SchemaLine(keys, delimiter) ==
    SchemaTag \o <<delimiter>> \o Join(keys, <<delimiter>>) \o <<NewLine>>

\* convertObjectToToon(obj, delimiter, nestedSeparator, includeSchema): the
\* string it returns, or what Object.entries throws for null and undefined
convertObjectToToon(obj, delimiter, nestedSeparator, includeSchema) ==
    IF obj.t \in {"null", "undefined"} THEN Throw(TypeErrorNullish)
    ELSE
    LET flattenedPairs == OwnEntries(flattenObject(obj, <<>>, nestedSeparator))
        keys == [k \in 1..Len(flattenedPairs) |-> flattenedPairs[k][1]]
        values == [k \in 1..Len(flattenedPairs) |->
                      escapeValue(StringOrEmpty(flattenedPairs[k][2]), delimiter)]
    IN Str((IF includeSchema THEN SchemaLine(keys, delimiter) ELSE <<>>)
           \o Join(values, <<delimiter>>))

\* convertArrayToToon(arr, delimiter, includeSchema): the string it returns, or
\* the TypeError the first failing step throws
convertArrayToToon(arr, delimiter, includeSchema) ==
    IF arr.t \in {"null", "undefined"} THEN Throw(TypeErrorRead)
    ELSE IF GetProp(arr, StrLength) = Num(0) THEN Str(<<>>)
    ELSE
    LET firstItem == GetProp(arr, <<"0">>)
    IN
    IF firstItem.t \in {"null", "undefined"} THEN Throw(TypeErrorNullish)
    ELSE
    LET firstEntries == ObjectEntries(firstItem)
        keys == [k \in 1..Len(firstEntries) |-> firstEntries[k][1]]
        \* for (const item of arr): arrays and strings are iterable
        elems == IF arr.t = "array" THEN arr.v
                 ELSE [k \in 1..Len(arr.v) |-> Str(<<arr.v[k]>>)]
        Row(record) ==
            Join([k \in 1..Len(keys) |->
                    escapeValue(StringOrEmpty(GetProp(record, keys[k])), delimiter)],
                 <<delimiter>>) \o <<NewLine>>
        RECURSIVE Rows(_)
        Rows(k) == IF k > Len(elems) THEN <<>> ELSE Row(elems[k]) \o Rows(k + 1)
    IN
    IF arr.t \notin {"array", "string"} THEN Throw(TypeErrorIterable)
    ELSE IF Len(keys) > 0
            /\ \E k \in 1..Len(elems) : elems[k].t \in {"null", "undefined"}
    THEN Throw(TypeErrorRead)
    ELSE Str(Trim((IF includeSchema THEN SchemaLine(keys, delimiter) ELSE <<>>)
                  \o Rows(1)))

-----------------------------------------------------------------------------
(* Decoder: nodes/ToonToJson.node.ts *)

TypeErrorIn == "TypeError: Cannot use 'in' operator to search for a key in a primitive"
TypeErrorCreate == "TypeError: Cannot create property on a primitive"

\* parseDelimitedLine(line, delimiter): k is the 1-based position of line[i]
parseDelimitedLine(line, delimiter) ==
    LET RECURSIVE Loop(_, _, _, _)
        Loop(k, values, current, inQuotes) ==
            IF k > Len(line) THEN Append(values, current)
            ELSE LET char == line[k]
                 IN IF char = Quote
                    THEN IF inQuotes /\ k + 1 <= Len(line) /\ line[k + 1] = Quote
                         THEN Loop(k + 2, values, Append(current, Quote), inQuotes)
                         ELSE Loop(k + 1, values, current, ~inQuotes)
                    ELSE IF char = delimiter /\ ~inQuotes
                    THEN Loop(k + 1, Append(values, current), <<>>, inQuotes)
                    ELSE Loop(k + 1, values, Append(current, char), inQuotes)
    IN Loop(1, <<>>, <<>>, FALSE)

\* setNestedValue(obj, path, value, separator): the object after the call, or
\* the TypeError strict-mode code throws when a segment of the path holds a
\* primitive (`key in current` on a primitive, or the assignment of a
\* property to one)
setNestedValue(obj, path, value, separator) ==
    LET RECURSIVE Walk(_, _)
        Walk(current, keys) ==
            IF Len(keys) = 1
            THEN IF current.t = "object"
                 THEN Obj(PutKey(current.v, keys[1], value))
                 ELSE Throw(TypeErrorCreate)
            ELSE IF current.t # "object" THEN Throw(TypeErrorIn)
            ELSE LET key == keys[1]
                     made == IF ~HasKey(current.v, key)
                             THEN PutKey(current.v, key, Obj(<<>>))
                             ELSE current.v
                     below == Walk(GetKey(made, key), Tail(keys))
                 IN IF IsThrow(below) THEN below
                    ELSE Obj(PutKey(made, key, below))
    IN Walk(obj, Split(path, separator))

\* Number(value) of a string: NaN or the number.  The strings of the model
\* hold no sign, decimal point, exponent or radix prefix next to a digit, so
\* a numeric string is a string of decimal digits between white space, and
\* the string of white space alone is 0.
NumberOf(value) ==
    LET s == Trim(value)
    IN IF \A k \in 1..Len(s) : IsDigit(s[k]) THEN Num(DecimalValue(s)) ELSE NaN

\* the type conversion without the `value !== ''` test
Coerce_EmptyIsZero(value, parseNumbers, parseBooleans) ==
    IF parseNumbers /\ NumberOf(value) # NaN
    THEN NumberOf(value)
    ELSE IF parseBooleans /\ value = StrTrue THEN Bool(TRUE)
    ELSE IF parseBooleans /\ value = StrFalse THEN Bool(FALSE)
    ELSE Str(value)

\* the type conversion of parseToon (lines 99-105)
Coerce(value, parseNumbers, parseBooleans) ==
    IF parseNumbers /\ NumberOf(value) # NaN /\ Len(value) > 0
    THEN NumberOf(value)
    ELSE IF parseBooleans /\ value = StrTrue THEN Bool(TRUE)
    ELSE IF parseBooleans /\ value = StrFalse THEN Bool(FALSE)
    ELSE Str(value)

\* toon.trim().split('\n')
ToonLines(toon) == Split(Trim(toon), NewLine)

\* the key list of parseToon (lines 72-85)
ToonKeys(lines, delimiter) ==
    IF StartsWith(lines[1], SchemaTag)
    THEN Split(RemoveFirst(lines[1], SchemaTag \o <<delimiter>>), delimiter)
    ELSE LET firstLineValues == parseDelimitedLine(lines[1], delimiter)
         IN [idx \in 1..Len(firstLineValues) |-> StrField \o DigitsOf(idx - 1)]

\* the data lines of parseToon (lines 73, 81)
ToonDataLines(lines) ==
    IF StartsWith(lines[1], SchemaTag) THEN Tail(lines) ELSE lines

\* the record of one data line (lines 92-109), or the TypeError of
\* setNestedValue
ParseRow(line, keys, delimiter, nestedSeparator, parseNumbers, parseBooleans) ==
    LET values == parseDelimitedLine(line, delimiter)
        RECURSIVE Loop(_, _)
        Loop(k, record) ==
            IF k > Len(keys) \/ IsThrow(record) THEN record
            ELSE LET raw == IF k <= Len(values) THEN values[k] ELSE <<>>
                 IN Loop(k + 1,
                         setNestedValue(record, keys[k],
                                        Coerce(raw, parseNumbers, parseBooleans),
                                        nestedSeparator))
    IN Loop(1, Obj(<<>>))

\* the records of parseToon (lines 87-112): the list, or the first TypeError
ParseRecords(dataLines, keys, delimiter, nestedSeparator, parseNumbers, parseBooleans) ==
    LET RECURSIVE Loop(_, _)
        Loop(k, records) ==
            IF k > Len(dataLines) THEN Arr(records)
            ELSE IF Len(Trim(dataLines[k])) = 0 THEN Loop(k + 1, records)
            ELSE LET record == ParseRow(dataLines[k], keys, delimiter,
                                        nestedSeparator, parseNumbers, parseBooleans)
                 IN IF IsThrow(record) THEN record
                    ELSE Loop(k + 1, Append(records, record))
    IN Loop(1, <<>>)

\* the output format with "auto" taking the first record of any list of at
\* most one record
ShapeOutput_AtMostOne(records, format) ==
    IF format = "auto"
    THEN IF Len(records) = 1 THEN records[1]
         ELSE IF Len(records) = 0 THEN Undefined ELSE Arr(records)
    ELSE IF format = "object"
    THEN IF Len(records) > 0 THEN records[1] ELSE Obj(<<>>)
    ELSE Arr(records)

\* the output format with "object" returning records[0] without the `|| {}`
ShapeOutput_NoDefault(records, format) ==
    IF format = "auto"
    THEN IF Len(records) = 1 THEN records[1] ELSE Arr(records)
    ELSE IF format = "object"
    THEN IF Len(records) > 0 THEN records[1] ELSE Undefined
    ELSE Arr(records)

\* the output format of parseToon (lines 114-120)
ShapeOutput(records, format) ==
    IF format = "auto"
    THEN IF Len(records) = 1 THEN records[1] ELSE Arr(records)
    ELSE IF format = "object"
    THEN IF Len(records) > 0 THEN records[1] ELSE Obj(<<>>)
    ELSE Arr(records)

\* parseToon(toon, delimiter, nestedSeparator, outputFormat, parseNumbers,
\* parseBooleans) of a string
parseToon(toon, delimiter, nestedSeparator, format, parseNumbers, parseBooleans) ==
    LET lines == ToonLines(toon)
    IN IF Len(lines) = 0
       THEN IF format = "array" THEN Arr(<<>>) ELSE Obj(<<>>)
       ELSE LET records == ParseRecords(ToonDataLines(lines),
                                        ToonKeys(lines, delimiter), delimiter,
                                        nestedSeparator, parseNumbers, parseBooleans)
            IN IF IsThrow(records) THEN records
               ELSE ShapeOutput(records.v, format)

-----------------------------------------------------------------------------
(* Token-savings estimate and the body of the two execute loops. *)

\* JSON.stringify(x) of a value other than undefined
RECURSIVE JsonStringify(_)
JsonStringify(x) ==
    LET Escaped(c) ==
            CASE c = Quote -> <<"\\", Quote>>
              [] c = "\\" -> <<"\\", "\\">>
              [] c = "\n" -> <<"\\", "n">>
              [] c = "\t" -> <<"\\", "t">>
              [] c = "\r" -> <<"\\", "r">>
              [] OTHER -> <<c>>
        Quoted(s) ==
            <<Quote>> \o Join([k \in 1..Len(s) |-> Escaped(s[k])], <<>>) \o <<Quote>>
    IN CASE x.t = "string" -> Quoted(x.v)
         [] x.t = "number" -> DigitsOf(x.v)
         [] x.t = "boolean" -> IF x.v THEN StrTrue ELSE StrFalse
         [] x.t = "null" -> StrNull
         [] x.t = "array" ->
               <<"[">> \o Join([k \in 1..Len(x.v) |->
                                   IF x.v[k].t = "undefined" THEN StrNull
                                   ELSE JsonStringify(x.v[k])], <<",">>) \o <<"]">>
         [] OTHER ->
               LET own == SelectSeq(OwnEntries(x.v), LAMBDA p : p[2].t # "undefined")
               IN <<"{">> \o Join([k \in 1..Len(own) |->
                                      Quoted(own[k][1]) \o <<":">>
                                      \o JsonStringify(own[k][2])], <<",">>) \o <<"}">>

\* Math.ceil(n / 4) of a string length
CeilQuarter(n) == (n + 3) \div 4

StrNaN == <<"N", "a", "N">>
StrMinusInfinity == <<"-", "I", "n", "f", "i", "n", "i", "t", "y">>
StrTokenReduction ==
    <<"%", " ", "t", "o", "k", "e", "n", " ", "r", "e", "d", "u", "c", "t", "i", "o", "n">>

\* (num / den * 100).toFixed(1) for den > 0: the quotient to one decimal
\* place, a tie rounded away from zero, a negative quotient keeping its sign
ToFixed1(num, den) ==
    LET mag == IF num < 0 THEN -num ELSE num
        tenths == (2000 * mag + den) \div (2 * den)
    IN (IF num < 0 THEN <<"-">> ELSE <<>>)
       \o DigitsOf(tenths \div 10) \o <<".">> \o DigitsOf(tenths % 10)

\* estimateTokenSavings(jsonStr, toonStr): 0 / 0 is NaN and a negative number
\* over 0 is -Infinity
estimateTokenSavings(json, toon) ==
    LET jsonTokens == CeilQuarter(Len(json))
        toonTokens == CeilQuarter(Len(toon))
        savings == IF jsonTokens = 0
                   THEN IF toonTokens = 0 THEN StrNaN ELSE StrMinusInfinity
                   ELSE ToFixed1(jsonTokens - toonTokens, jsonTokens)
    IN <<"~">> \o savings \o StrTokenReduction

\* options.delimiter || '|'
DelimiterOf(opts) == IF opts.delimiter = "" THEN "|" ELSE opts.delimiter

\* options.nestedSeparator || '.'
NestedSeparatorOf(opts) ==
    IF opts.nestedSeparator = "" THEN "." ELSE opts.nestedSeparator

\* lines 192-207 of JsonToToon.execute: the encoder the operation selects
ConvertInput(op, input, opts) ==
    IF op = "convertArray"
    THEN convertArrayToToon(input, DelimiterOf(opts), opts.includeSchema)
    ELSE convertObjectToToon(input, DelimiterOf(opts), NestedSeparatorOf(opts),
                             opts.includeSchema)

\* lines 209-218: the entry pushed to returnData for the TOON text, or the
\* exception the encoder threw
JsonToToonEntry(input, toon) ==
    IF IsThrow(toon) THEN toon
    ELSE [t |-> "json",
          v |-> [toon |-> toon,
                 originalJson |-> input,
                 tokenSavingsEstimate |->
                     estimateTokenSavings(JsonStringify(input), toon.v)]]

\* the try block of JsonToToon.execute for one item: the entry pushed to
\* returnData, or the exception
JsonToToonItem(item) ==
    JsonToToonEntry(item.jsonInput,
                    ConvertInput(item.operation, item.jsonInput, item.options))

\* lines 243-245: the entry pushed to returnData, or the exception parseToon
\* threw
ToonToJsonEntry(json) == IF IsThrow(json) THEN json ELSE [t |-> "json", v |-> json]

\* the try block of ToonToJson.execute for one item
ToonToJsonItem(item) ==
    ToonToJsonEntry(parseToon(item.toonInput, DelimiterOf(item.options),
                              NestedSeparatorOf(item.options), item.outputFormat,
                              item.options.parseNumbers, item.options.parseBooleans))

-----------------------------------------------------------------------------
(* Inputs of the encoder. *)

\* the characters of the string values: a letter, a digit, the default
\* delimiter, the quote and the newline
ValueChars == {"a", "1", "|", Quote, NewLine}

StringsUpTo(n) == UNION {[1..m -> ValueChars] : m \in 0..n}

\* leaf values: strings, numbers, booleans, null and arrays of them
OtherLeaves ==
    {Str(StrTrue), Num(30), Bool(TRUE), Null, Arr(<<Str(<<"a">>), Num(1)>>)}
Leaves == {Str(s) : s \in StringsUpTo(MaxValLen)} \cup OtherLeaves
ShortLeaves == {Str(s) : s \in StringsUpTo(1)} \cup OtherLeaves
RowLeaves == {Str(<<>>), Str(<<"a">>), Str(<<"|">>), Str(<<Quote>>), Num(30), Null}
PairLeaves == {Str(<<>>), Str(<<Quote>>), Num(30)}

\* key lists in creation order: plain keys, an array-index key created after
\* a plain one, a key that holds the nested separator, one that holds the
\* delimiter
AllKeyLists ==
    { <<>>,
      << <<"a">> >>, << <<"a", ".", "b">> >>, << <<"a", "|">> >>,
      << <<"a">>, <<"b">> >>, << <<"b">>, <<"1">> >>,
      << <<"a">>, <<"a", ".", "b">> >>,
      << <<"b">>, <<"1">>, <<"a">> >> }
KeyLists == {kl \in AllKeyLists : Len(kl) <= MaxProps}

\* the objects with the keys kl, created in that order, and values from L
ObjectsOver(kl, L) ==
    {Obj([k \in 1..Len(kl) |-> <<kl[k], f[k]>>]) : f \in [1..Len(kl) -> L]}

FlatObjects ==
    UNION {ObjectsOver(kl, IF Len(kl) <= 1 THEN Leaves ELSE ShortLeaves) :
           kl \in KeyLists}

\* objects with one nested level
NestedObjects ==
    {Obj(<< <<<<"a">>, inner>>, <<<<"b">>, leaf>> >>) :
        inner \in ObjectsOver(<< <<"b">> >>, RowLeaves), leaf \in {Str(<<"a">>)}}

\* arrays of records that all have the same keys, and arrays with a null or a
\* number among their elements
ArraysOver(kl, L) ==
    {Arr(a) : a \in UNION {[1..n -> ObjectsOver(kl, L)] : n \in 0..MaxArr}}
Arrays ==
    ArraysOver(<< <<"a">> >>, RowLeaves)
    \cup ArraysOver(<< <<"a">>, <<"b">> >>, PairLeaves)
    \cup {Arr(<<Obj(<< <<<<"a">>, Num(1)>> >>), Null>>), Arr(<<Num(1)>>)}

\* the example of the README: {"name": "John", "age": 30, "city": "Madrid"}
ReadmeExample ==
    Obj(<< << <<"n", "a", "m", "e">>, Str(<<"J", "o", "h", "n">>) >>,
           << <<"a", "g", "e">>, Num(30) >>,
           << <<"c", "i", "t", "y">>, Str(<<"M", "a", "d", "r", "i", "d">>) >> >>)

\* "@schema|name|age|city\nJohn|30|Madrid"
ReadmeToon ==
    SchemaTag \o <<"|", "n", "a", "m", "e", "|", "a", "g", "e", "|",
                   "c", "i", "t", "y", NewLine,
                   "J", "o", "h", "n", "|", "3", "0", "|",
                   "M", "a", "d", "r", "i", "d">>

\* what getNodeParameter('jsonInput') may hand over
JsonInputs ==
    FlatObjects \cup NestedObjects \cup Arrays
    \cup {ReadmeExample, Null, Str(<<"a", "b">>), Num(5),
          Obj(<< <<StrLength, Num(0)>> >>)}

Operations == {"convertObject", "convertArray"}
Delimiters == {"|", ","}
OutputFormats == {"object", "array", "auto"}

\* the options of a run with the default nested separator
OptionsOf(delimiter, includeSchema, parseNumbers, parseBooleans) ==
    [delimiter |-> delimiter, nestedSeparator |-> "",
     includeSchema |-> includeSchema,
     parseNumbers |-> parseNumbers, parseBooleans |-> parseBooleans]

NoValue == [t |-> "none", v |-> 0]

-----------------------------------------------------------------------------
(* Spec: one item through JsonToToon, its TOON text through ToonToJson. *)

Init ==
    /\ pc = "convert"
    /\ node = "JsonToToon"
    /\ operation \in Operations
    /\ jsonInput \in JsonInputs
    /\ options \in {OptionsOf(d, s, TRUE, TRUE) : d \in Delimiters, s \in BOOLEAN}
    /\ outputFormat = "auto"
    /\ toonOutput = NoValue
    /\ toonInput = <<>>
    /\ jsonOutput = NoValue
    /\ jsonStr = <<>>
    /\ toonStr = <<>>
    /\ tokenSavingsEstimate = <<>>
    /\ items = <<>>
    /\ continueOnFail = FALSE
    /\ i = 0
    /\ returnData = <<>>
    /\ thrown = NoValue

\* the end of the try block of JsonToToon.execute for the TOON text or the
\* exception of the encoder
ConvertEnds(toon) ==
    /\ toonOutput' = toon
    /\ IF IsThrow(toon)
       THEN /\ pc' = "failed"
            /\ UNCHANGED <<jsonStr, toonStr, tokenSavingsEstimate>>
       ELSE /\ pc' = "converted"
            /\ jsonStr' = JsonStringify(jsonInput)
            /\ toonStr' = toon.v
            /\ tokenSavingsEstimate' = estimateTokenSavings(jsonStr', toonStr')

\* JsonToToon.execute, lines 180-218, for the item
Convert ==
    /\ pc = "convert"
    /\ ConvertEnds(ConvertInput(operation, jsonInput, options))
    /\ UNCHANGED <<node, operation, jsonInput, options, outputFormat, toonInput,
                   jsonOutput, items, continueOnFail, i, returnData, thrown>>

\* ToonToJson.execute, lines 220-241, for the text the encoder returned, with
\* the same delimiter and nested separator
Parse ==
    /\ pc = "converted"
    /\ \E fmt \in OutputFormats, flags \in {<<TRUE, TRUE>>, <<FALSE, FALSE>>} :
          /\ outputFormat' = fmt
          /\ options' = [options EXCEPT !.parseNumbers = flags[1],
                                        !.parseBooleans = flags[2]]
          /\ toonInput' = toonOutput.v
          /\ jsonOutput' = parseToon(toonOutput.v, DelimiterOf(options),
                                     NestedSeparatorOf(options), fmt,
                                     flags[1], flags[2])
    /\ pc' = "parsed"
    /\ node' = "ToonToJson"
    /\ UNCHANGED <<operation, jsonInput, toonOutput, jsonStr, toonStr,
                   tokenSavingsEstimate, items, continueOnFail, i, returnData,
                   thrown>>

Next == Convert \/ Parse

Spec == Init /\ [][Next]_vars

-----------------------------------------------------------------------------
(* Properties of the encoder and of the round trip, checked under Spec. *)

\* the keys of an object's properties
KeySet(e) == {e[k][1] : k \in 1..Len(e)}

\* the keys of an object's properties in the order they were created
KeyList(e) == [k \in 1..Len(e) |-> e[k][1]]

\* a flat object: every value is a string, a number, a boolean or an array
IsFlatObject(x) ==
    /\ x.t = "object"
    /\ \A k \in 1..Len(x.v) : x.v[k][2].t \in {"string", "number", "boolean", "array"}

\* what a leaf reads as after a round trip: its string (an array's joined
\* string) under the coercion the parse flags select
LeafRead(leaf) ==
    Coerce(JsString(leaf), options.parseNumbers, options.parseBooleans)

\* the decoded record has exactly the keys of the flat object, each with its
\* leaf as read back
RecordMatches(out, obj) ==
    /\ out.t = "object"
    /\ KeySet(out.v) = KeySet(obj.v)
    /\ \A k \in 1..Len(obj.v) : GetKey(out.v, obj.v[k][1]) = LeafRead(obj.v[k][2])

\* C1: object round trip.  For every flat object (unique keys; string, number,
\* boolean or array values) and every configuration with includeSchema = true,
\* parseToon(convertObjectToToon(obj, cfg), cfg) with outputFormat "object"
\* returns an object with exactly the keys of obj, each value the original
\* leaf (an array as its joined string) under the coercion of the parse flags.
C1_ObjectRoundTrip ==
    ( /\ pc = "parsed"
      /\ operation = "convertObject"
      /\ outputFormat = "object"
      /\ options.includeSchema
      /\ IsFlatObject(jsonInput) )
    => RecordMatches(jsonOutput, jsonInput)

\* C2: array round trip.  For every non-empty array of flat objects with the
\* same keys in the same order, parseToon(convertArrayToToon(arr, cfg), cfg)
\* with outputFormat "array" returns an array of the same length whose i-th
\* record equals arr[i].
C2_ArrayRoundTrip ==
    ( /\ pc = "parsed"
      /\ operation = "convertArray"
      /\ outputFormat = "array"
      /\ options.includeSchema
      /\ jsonInput.t = "array"
      /\ Len(jsonInput.v) > 0
      /\ \A k \in 1..Len(jsonInput.v) :
            /\ IsFlatObject(jsonInput.v[k])
            /\ KeyList(jsonInput.v[k].v) = KeyList(jsonInput.v[1].v) )
    => /\ jsonOutput.t = "array"
       /\ Len(jsonOutput.v) = Len(jsonInput.v)
       /\ \A k \in 1..Len(jsonInput.v) :
             RecordMatches(jsonOutput.v[k], jsonInput.v[k])

\* C3: escaping round trip.  For every string value that holds the delimiter
\* or a newline, the encoder emits the field in double quotes with its quotes
\* doubled, and decoding the document returns the field's value equal to the
\* original string.  Stated for the object {a: value} decoded with both parse
\* flags off, so that nothing but the escaping acts on the value.
C3_EscapingRoundTrip ==
    ( /\ pc = "parsed"
      /\ operation = "convertObject"
      /\ outputFormat = "object"
      /\ options.includeSchema
      /\ ~options.parseNumbers /\ ~options.parseBooleans
      /\ jsonInput.t = "object"
      /\ KeyList(jsonInput.v) = << <<"a">> >>
      /\ jsonInput.v[1][2].t = "string"
      /\ \/ Includes(jsonInput.v[1][2].v, DelimiterOf(options))
         \/ Includes(jsonInput.v[1][2].v, NewLine) )
    => /\ toonInput = SchemaLine(<< <<"a">> >>, DelimiterOf(options))
                      \o <<Quote>> \o DoubleQuotes(jsonInput.v[1][2].v) \o <<Quote>>
       /\ jsonOutput = Obj(<< << <<"a">>, jsonInput.v[1][2] >> >>)

\* a flat object whose values are strings, numbers and booleans that hold
\* neither the delimiter nor a newline
IsPlainScalarObject(x, delimiter) ==
    /\ x.t = "object"
    /\ \A k \in 1..Len(x.v) :
          /\ x.v[k][2].t \in {"string", "number", "boolean"}
          /\ ~Includes(JsString(x.v[k][2]), delimiter)
          /\ ~Includes(JsString(x.v[k][2]), NewLine)

\* "@schema" + d + k1 + d + ... + kn + "\n" + String(v1) + d + ... + String(vn)
WireFormat(props, delimiter) ==
    SchemaTag \o <<delimiter>> \o Join(KeyList(props), <<delimiter>>) \o <<NewLine>>
    \o Join([k \in 1..Len(props) |-> JsString(props[k][2])], <<delimiter>>)

\* C4 as stated: object-mode wire format with the keys k1..kn in insertion
\* order.
C4_InsertionOrder ==
    ( /\ pc = "converted"
      /\ operation = "convertObject"
      /\ options.includeSchema
      /\ IsPlainScalarObject(jsonInput, DelimiterOf(options)) )
    => toonOutput = Str(WireFormat(jsonInput.v, DelimiterOf(options)))

\* C4 (amended): object-mode wire format.  For a flat object with scalar
\* values that hold neither the delimiter d nor a newline, convertObjectToToon
\* with includeSchema = true returns exactly "@schema" + d + k1 + d + ... + kn
\* + "\n" + String(v1) + d + ... + String(vn), where k1..kn are the keys in the
\* order Object.keys enumerates them (array-index keys first, ascending, then
\* the other keys in insertion order); for {name: John, age: 30, city: Madrid}
\* with d = "|" this is "@schema|name|age|city\nJohn|30|Madrid".
C4_WireFormat ==
    /\ ( /\ pc = "converted"
         /\ operation = "convertObject"
         /\ options.includeSchema
         /\ IsPlainScalarObject(jsonInput, DelimiterOf(options)) )
       => toonOutput = Str(WireFormat(OwnEntries(jsonInput.v), DelimiterOf(options)))
    /\ ( /\ pc = "converted"
         /\ operation = "convertObject"
         /\ options.includeSchema
         /\ DelimiterOf(options) = "|"
         /\ jsonInput = ReadmeExample )
       => toonOutput = Str(ReadmeToon)

\* the README example has gone through convertObjectToToon
C4_Witness ==
    /\ pc = "converted"
    /\ operation = "convertObject"
    /\ options.includeSchema
    /\ DelimiterOf(options) = "|"
    /\ jsonInput = ReadmeExample
    /\ toonOutput = Str(ReadmeToon)

\* C8: input shape error.  When the operation is convertArray and the input
\* is not an array, or the operation is convertObject and the input is not an
\* object, the encoder fails with an error and produces no TOON output.
C8_ShapeError ==
    ( /\ pc # "convert"
      /\ \/ operation = "convertArray" /\ jsonInput.t # "array"
         \/ operation = "convertObject" /\ jsonInput.t # "object" )
    => IsThrow(toonOutput)

-----------------------------------------------------------------------------
(* SpecDecode: ToonToJson on a text that need not come from the encoder. *)

\* the characters of a TOON text: a letter, a digit, the delimiter, the
\* quote, a blank and the newline
TextChars == {"a", "1", "|", Quote, " ", NewLine}

\* what may stand before the text: nothing, the bare tag, a schema line, a
\* schema line whose second key lies under the first
Headers ==
    { <<>>,
      SchemaTag,
      SchemaTag \o <<"|", "a", "|", "b", NewLine>>,
      SchemaTag \o <<"|", "a", "|", "a", ".", "b", NewLine>> }

ToonTexts ==
    {h \o body : h \in Headers,
                 body \in UNION {[1..m -> TextChars] : m \in 0..MaxTextLen}}

\* the default nested separator, and one that occurs in the key names
\* parseToon makes up for a text without a schema line
NestedSeparators == {"", "d"}

InitDecode ==
    /\ pc = "parse"
    /\ node = "ToonToJson"
    /\ toonInput \in ToonTexts
    /\ options \in {[OptionsOf("", TRUE, TRUE, TRUE) EXCEPT !.nestedSeparator = sep] :
                    sep \in NestedSeparators}
    /\ outputFormat = "auto"
    /\ operation = ""
    /\ jsonInput = NoValue
    /\ toonOutput = NoValue
    /\ jsonOutput = NoValue
    /\ jsonStr = <<>>
    /\ toonStr = <<>>
    /\ tokenSavingsEstimate = <<>>
    /\ items = <<>>
    /\ continueOnFail = FALSE
    /\ i = 0
    /\ returnData = <<>>
    /\ thrown = NoValue

\* ToonToJson.execute, lines 220-241, for the item
ParseText ==
    /\ pc = "parse"
    /\ \E fmt \in OutputFormats, flags \in {<<TRUE, TRUE>>, <<FALSE, FALSE>>} :
          LET json == parseToon(toonInput, DelimiterOf(options),
                                NestedSeparatorOf(options), fmt, flags[1], flags[2])
          IN /\ outputFormat' = fmt
             /\ options' = [options EXCEPT !.parseNumbers = flags[1],
                                           !.parseBooleans = flags[2]]
             /\ jsonOutput' = json
             /\ pc' = IF IsThrow(json) THEN "failed" ELSE "parsed"
    /\ UNCHANGED <<node, operation, jsonInput, toonOutput, toonInput, jsonStr,
                   toonStr, tokenSavingsEstimate, items, continueOnFail, i,
                   returnData, thrown>>

NextDecode == ParseText

SpecDecode == InitDecode /\ [][NextDecode]_vars

\* the lines of the text that parseToon reads as data and does not skip
DataRows(text) ==
    SelectSeq(ToonDataLines(ToonLines(text)), LAMBDA line : Len(Trim(line)) > 0)

\* the records parseToon builds from the text in toonInput
RecordsOfInput ==
    ParseRecords(ToonDataLines(ToonLines(toonInput)),
                 ToonKeys(ToonLines(toonInput), DelimiterOf(options)),
                 DelimiterOf(options), NestedSeparatorOf(options),
                 options.parseNumbers, options.parseBooleans)

\* C5: auto output shaping.  With outputFormat "auto" parseToon returns the
\* single row record (an object, not a list) when exactly one non-blank data
\* row was parsed, and the full ordered list of row records in every other
\* case, the empty list when there was no row.
C5_AutoShaping ==
    (pc = "parsed" /\ outputFormat = "auto")
    => LET n == Len(DataRows(toonInput))
           records == RecordsOfInput.v
       IN /\ Len(records) = n
          /\ n = 1 => jsonOutput.t = "object" /\ jsonOutput = records[1]
          /\ n # 1 => jsonOutput.t = "array" /\ jsonOutput.v = records
          /\ n = 0 => jsonOutput = Arr(<<>>)

\* a text with one data row has been decoded to that row's record
C5_Witness ==
    /\ pc = "parsed"
    /\ outputFormat = "auto"
    /\ Len(DataRows(toonInput)) = 1
    /\ jsonOutput.t = "object"
    /\ Len(jsonOutput.v) > 0

\* the key names field0 .. field(n-1)
FieldKeys(n) == [idx \in 1..n |-> StrField \o DigitsOf(idx - 1)]

\* C6: schema-less decode.  When the first line of the trimmed input does not
\* start with "@schema", every produced record has exactly the keys field0,
\* ..., field(n-1), n the number of tokens parseDelimitedLine yields for the
\* first line, and a row with fewer than n tokens has the empty string at the
\* missing positions.
C6_SchemaLess ==
    ( /\ pc = "parsed"
      /\ outputFormat = "array"
      /\ ~StartsWith(ToonLines(toonInput)[1], SchemaTag) )
    => LET rows == DataRows(toonInput)
           n == Len(parseDelimitedLine(ToonLines(toonInput)[1], DelimiterOf(options)))
       IN /\ jsonOutput.t = "array"
          /\ Len(jsonOutput.v) = Len(rows)
          /\ \A r \in 1..Len(rows) :
                LET tokens == parseDelimitedLine(rows[r], DelimiterOf(options))
                    record == jsonOutput.v[r]
                IN /\ record.t = "object"
                   /\ KeyList(record.v) = FieldKeys(n)
                   /\ \A k \in 1..n :
                         k > Len(tokens) => record.v[k][2] = Str(<<>>)

\* whether every character of the text is white space
IsBlank(text) == \A k \in 1..Len(text) : text[k] \in WhiteSpace

\* C7: empty-input decode.  For every text that is empty or white space only
\* parseToon raises no error and returns the empty object {} when
\* outputFormat is "object" and the empty list [] when it is "array".
C7_EmptyInput ==
    (pc # "parse" /\ IsBlank(toonInput))
    => /\ pc = "parsed"
       /\ outputFormat = "object" => jsonOutput = Obj(<<>>)
       /\ outputFormat = "array" => jsonOutput = Arr(<<>>)

\* a text of white space has been decoded to the empty object
C7_Witness ==
    /\ pc = "parsed"
    /\ Len(toonInput) > 0
    /\ IsBlank(toonInput)
    /\ outputFormat = "object"
    /\ jsonOutput = Obj(<<>>)

-----------------------------------------------------------------------------
(* SpecEstimate: estimateTokenSavings on two strings. *)

\* the strings of up to MaxEstLen characters; only their length is read
EstStrings == UNION {[1..m -> {"x"}] : m \in 0..MaxEstLen}

InitEstimate ==
    /\ pc = "estimate"
    /\ node = "JsonToToon"
    /\ jsonStr \in EstStrings
    /\ toonStr \in EstStrings
    /\ tokenSavingsEstimate = <<>>
    /\ operation = ""
    /\ jsonInput = NoValue
    /\ options = OptionsOf("", TRUE, TRUE, TRUE)
    /\ outputFormat = "auto"
    /\ toonOutput = NoValue
    /\ toonInput = <<>>
    /\ jsonOutput = NoValue
    /\ items = <<>>
    /\ continueOnFail = FALSE
    /\ i = 0
    /\ returnData = <<>>
    /\ thrown = NoValue

\* estimateTokenSavings(jsonStr, toonStr), lines 90-95
Estimate ==
    /\ pc = "estimate"
    /\ tokenSavingsEstimate' = estimateTokenSavings(jsonStr, toonStr)
    /\ pc' = "estimated"
    /\ UNCHANGED <<node, operation, jsonInput, options, outputFormat, toonOutput,
                   toonInput, jsonOutput, jsonStr, toonStr, items,
                   continueOnFail, i, returnData, thrown>>

NextEstimate == Estimate

SpecEstimate == InitEstimate /\ [][NextEstimate]_vars

-----------------------------------------------------------------------------
(* SpecBatch: the loop of execute over the items of a batch, in both nodes. *)

\* {json: {error: message}}
ErrorEntry(msg) == [t |-> "error", v |-> msg]

\* new NodeOperationError(this.getNode(), error, {itemIndex: i})
NodeOperationError(msg, itemIndex) ==
    [t |-> "NodeOperationError", v |-> [message |-> msg, itemIndex |-> itemIndex]]

\* items of JsonToToon: two that convert and two that throw
JsonToToonItems ==
    { [operation |-> "convertObject",
       jsonInput |-> Obj(<< << <<"a">>, Str(<<"a">>) >> >>),
       options |-> OptionsOf("", TRUE, TRUE, TRUE)],
      [operation |-> "convertArray",
       jsonInput |-> Arr(<<Obj(<< << <<"a">>, Num(1) >> >>)>>),
       options |-> OptionsOf(",", FALSE, TRUE, TRUE)],
      [operation |-> "convertObject",
       jsonInput |-> Null,
       options |-> OptionsOf("", TRUE, TRUE, TRUE)],
      [operation |-> "convertArray",
       jsonInput |-> Obj(<< << <<"a">>, Str(<<"a">>) >> >>),
       options |-> OptionsOf("", TRUE, TRUE, TRUE)] }

\* items of ToonToJson: two that parse and one whose second key lies under
\* the string the first key holds, where setNestedValue throws
ToonToJsonItems ==
    { [toonInput |-> <<"a", "|", "1">>, outputFormat |-> "auto",
       options |-> OptionsOf("", TRUE, TRUE, TRUE)],
      [toonInput |-> <<>>, outputFormat |-> "object",
       options |-> OptionsOf("", TRUE, FALSE, FALSE)],
      [toonInput |-> SchemaTag \o <<"|", "a", "|", "a", ".", "b", NewLine, "a", "|", "1">>,
       outputFormat |-> "array",
       options |-> OptionsOf("", TRUE, TRUE, TRUE)] }

\* the batches of up to MaxItems items of one node
BatchesOver(S) == UNION {[1..m -> S] : m \in 0..MaxItems}
JsonToToonBatches == BatchesOver(JsonToToonItems)
ToonToJsonBatches == BatchesOver(ToonToJsonItems)

\* the try block of the node's loop for one item
TryItem(n, item) ==
    IF n = "JsonToToon" THEN JsonToToonItem(item) ELSE ToonToJsonItem(item)

InitBatch ==
    /\ pc = "loop"
    /\ \/ node = "JsonToToon" /\ items \in JsonToToonBatches
       \/ node = "ToonToJson" /\ items \in ToonToJsonBatches
    /\ continueOnFail \in BOOLEAN
    /\ i = 0
    /\ returnData = <<>>
    /\ thrown = NoValue
    /\ operation = ""
    /\ jsonInput = NoValue
    /\ options = OptionsOf("", TRUE, TRUE, TRUE)
    /\ outputFormat = "auto"
    /\ toonOutput = NoValue
    /\ toonInput = <<>>
    /\ jsonOutput = NoValue
    /\ jsonStr = <<>>
    /\ toonStr = <<>>
    /\ tokenSavingsEstimate = <<>>

BatchUnchanged ==
    UNCHANGED <<node, operation, jsonInput, options, outputFormat, toonOutput,
                toonInput, jsonOutput, jsonStr, toonStr, tokenSavingsEstimate,
                items, continueOnFail>>

\* the end of the try block: the entry is pushed and the loop goes on, or the
\* exception reaches the catch clause
TryEnds(result) ==
    IF IsThrow(result)
    THEN /\ thrown' = result
         /\ pc' = "catch"
         /\ UNCHANGED <<i, returnData>>
    ELSE /\ returnData' = Append(returnData, result)
         /\ i' = i + 1
         /\ UNCHANGED <<pc, thrown>>

\* the try block of one iteration
TryBlock ==
    /\ pc = "loop"
    /\ i < Len(items)
    /\ TryEnds(TryItem(node, items[i + 1]))
    /\ BatchUnchanged

\* the catch clause with continueOnFail on that continues without an entry
CatchContinue_NoEntry ==
    /\ pc = "catch"
    /\ continueOnFail
    /\ i' = i + 1
    /\ thrown' = NoValue
    /\ pc' = "loop"
    /\ UNCHANGED returnData
    /\ UNCHANGED <<node, operation, jsonInput, options, outputFormat, toonOutput,
                   toonInput, jsonOutput, jsonStr, toonStr, tokenSavingsEstimate,
                   items, continueOnFail>>

\* the catch clause with continueOnFail on: the error entry is pushed and the
\* loop continues with the next item
CatchContinue ==
    /\ pc = "catch"
    /\ continueOnFail
    /\ returnData' = Append(returnData, ErrorEntry(thrown.v))
    /\ i' = i + 1
    /\ thrown' = NoValue
    /\ pc' = "loop"
    /\ BatchUnchanged

\* the catch clause with continueOnFail off: execute throws a
\* NodeOperationError with the index of the item
CatchThrow ==
    /\ pc = "catch"
    /\ ~continueOnFail
    /\ thrown' = NodeOperationError(thrown.v, i)
    /\ pc' = "thrown"
    /\ UNCHANGED <<i, returnData>>
    /\ BatchUnchanged

\* the loop is over: return [returnData]
ReturnData ==
    /\ pc = "loop"
    /\ i = Len(items)
    /\ pc' = "returned"
    /\ UNCHANGED <<i, returnData, thrown>>
    /\ BatchUnchanged

NextBatch == TryBlock \/ CatchContinue \/ CatchThrow \/ ReturnData

SpecBatch == InitBatch /\ [][NextBatch]_vars

\* the entry execute owes to an item: its result, or {error: message}
EntryFor(item) ==
    IF IsThrow(TryItem(node, item)) THEN ErrorEntry(TryItem(node, item).v)
    ELSE TryItem(node, item)

\* C10: per-item failure isolation in the batch loop of both nodes.  Items
\* are processed in index order; with continueOnFail on, a failure on item i
\* appends exactly one {error: message} entry for i and processing continues,
\* so the returned list has exactly one entry per input item in input order;
\* with continueOnFail off, the first failing item i aborts the run with an
\* error carrying itemIndex = i, no later item is processed and no output
\* list is returned.
C10_FailureIsolation ==
    /\ Len(returnData) = i
    /\ i <= Len(items)
    /\ \A k \in 1..i : returnData[k] = EntryFor(items[k])
    /\ ~continueOnFail => \A k \in 1..i : ~IsThrow(TryItem(node, items[k]))
    /\ pc \in {"loop", "returned"} => thrown = NoValue
    /\ pc = "returned" => Len(returnData) = Len(items)
    /\ pc = "catch" => i < Len(items) /\ thrown = TryItem(node, items[i + 1])
    /\ pc = "thrown" =>
          /\ ~continueOnFail
          /\ i < Len(items)
          /\ IsThrow(TryItem(node, items[i + 1]))
          /\ thrown = NodeOperationError(TryItem(node, items[i + 1]).v, i)

\* a batch whose second item failed has been returned whole, the error entry
\* between the entries of its neighbours
C10_Witness ==
    /\ pc = "returned"
    /\ continueOnFail
    /\ Len(items) = 3
    /\ ~IsThrow(TryItem(node, items[1]))
    /\ IsThrow(TryItem(node, items[2]))
    /\ ~IsThrow(TryItem(node, items[3]))
    /\ returnData[2].t = "error"
    /\ returnData[3].t = "json"

-----------------------------------------------------------------------------
(* SpecTokenize: one line built by escapeValue and read by parseDelimitedLine. *)

\* most fields of a line
MaxFields == 2

\* the characters of a field: a letter, the two delimiters, the quote and the
\* newline
FieldChars == {"a", "|", ",", Quote, NewLine}

FieldStrings == UNION {[1..m -> FieldChars] : m \in 0..MaxValLen}

\* the lists v1..vn of string values, n >= 1
FieldLists == UNION {[1..n -> FieldStrings] : n \in 1..MaxFields}

InitTokenize ==
    /\ pc = "escape"
    /\ node = "JsonToToon"
    /\ jsonInput \in {Arr([k \in 1..Len(l) |-> Str(l[k])]) : l \in FieldLists}
    /\ options \in {OptionsOf(d, FALSE, FALSE, FALSE) : d \in Delimiters}
    /\ operation = ""
    /\ outputFormat = "array"
    /\ toonOutput = NoValue
    /\ toonInput = <<>>
    /\ jsonOutput = NoValue
    /\ jsonStr = <<>>
    /\ toonStr = <<>>
    /\ tokenSavingsEstimate = <<>>
    /\ items = <<>>
    /\ continueOnFail = FALSE
    /\ i = 0
    /\ returnData = <<>>
    /\ thrown = NoValue

\* values.map(escapeValue).join(delimiter), as JsonToToon.node.ts lines 51-59
\* and 81-84 build a data line
EscapeLine ==
    /\ pc = "escape"
    /\ toonOutput' = Str(Join([k \in 1..Len(jsonInput.v) |->
                                  escapeValue(jsonInput.v[k].v, DelimiterOf(options))],
                              <<DelimiterOf(options)>>))
    /\ pc' = "escaped"
    /\ UNCHANGED <<node, operation, jsonInput, options, outputFormat, toonInput,
                   jsonOutput, jsonStr, toonStr, tokenSavingsEstimate, items,
                   continueOnFail, i, returnData, thrown>>

\* parseDelimitedLine(line, delimiter) on that line
TokenizeLine ==
    /\ pc = "escaped"
    /\ toonInput' = toonOutput.v
    /\ jsonOutput' = Arr([k \in 1..Len(parseDelimitedLine(toonOutput.v, DelimiterOf(options)))
                            |-> Str(parseDelimitedLine(toonOutput.v, DelimiterOf(options))[k])])
    /\ pc' = "tokenized"
    /\ node' = "ToonToJson"
    /\ UNCHANGED <<operation, jsonInput, options, outputFormat, toonOutput,
                   jsonStr, toonStr, tokenSavingsEstimate, items,
                   continueOnFail, i, returnData, thrown>>

NextTokenize == EscapeLine \/ TokenizeLine

SpecTokenize == InitTokenize /\ [][NextTokenize]_vars

\* C11: the tokenizer exactly inverts the escaper.  For every list of string
\* values v1..vn (n >= 1) and every one-character delimiter d,
\* parseDelimitedLine of the escaped values joined by d returns exactly
\* [v1, ..., vn]: the token count is n and every token is its value.
C11_TokenizerInvertsEscaper ==
    pc = "tokenized" => jsonOutput = jsonInput

-----------------------------------------------------------------------------
(* SpecFlatten: flattenObject on objects of up to two levels. *)

\* property names: the empty name, two plain names, and a name that holds the
\* default separator
FlattenKeys == {<<>>, <<"a">>, <<"b">>, <<"a", ".", "b">>}

\* lists of distinct property names in creation order
FlattenKeyLists ==
    {kl \in UNION {[1..n -> FlattenKeys] : n \in 0..MaxProps} :
        \A j, k \in 1..Len(kl) : j # k => kl[j] # kl[k]}

FlattenLeaves == {Str(<<"a">>), Num(1), Arr(<<Str(<<"a">>), Num(1)>>)}

\* the nested objects: the empty one and those of one property
FlattenInner ==
    {Obj(<<>>)} \cup
    {Obj(<< <<key, leaf>> >>) : key \in {<<"a">>, <<"b">>},
                                leaf \in {Str(<<"a">>), Num(1)}}

FlattenInputs ==
    UNION {ObjectsOver(kl, FlattenLeaves \cup FlattenInner) : kl \in FlattenKeyLists}

InitFlatten ==
    /\ pc = "flatten"
    /\ node = "JsonToToon"
    /\ jsonInput \in FlattenInputs
    /\ options \in {[OptionsOf("", TRUE, TRUE, TRUE) EXCEPT !.nestedSeparator = sep] :
                    sep \in NestedSeparators}
    /\ operation = "convertObject"
    /\ outputFormat = "auto"
    /\ toonOutput = NoValue
    /\ toonInput = <<>>
    /\ jsonOutput = NoValue
    /\ jsonStr = <<>>
    /\ toonStr = <<>>
    /\ tokenSavingsEstimate = <<>>
    /\ items = <<>>
    /\ continueOnFail = FALSE
    /\ i = 0
    /\ returnData = <<>>
    /\ thrown = NoValue

\* flattenObject(obj, '', nestedSeparator), line 49
Flatten ==
    /\ pc = "flatten"
    /\ jsonOutput' = Obj(flattenObject(jsonInput, <<>>, NestedSeparatorOf(options)))
    /\ pc' = "flattened"
    /\ UNCHANGED <<node, operation, jsonInput, options, outputFormat, toonOutput,
                   toonInput, jsonStr, toonStr, tokenSavingsEstimate, items,
                   continueOnFail, i, returnData, thrown>>

NextFlatten == Flatten

SpecFlatten == InitFlatten /\ [][NextFlatten]_vars

\* the leaves of a value with their ancestor-key paths: every property value
\* that is not itself a plain object, at any depth
RECURSIVE LeafPaths(_, _)
LeafPaths(x, path) ==
    LET entries == ObjectEntries(x)
        RECURSIVE Loop(_)
        Loop(k) ==
            IF k > Len(entries) THEN <<>>
            ELSE (IF entries[k][2].t = "object"
                  THEN LeafPaths(entries[k][2], Append(path, entries[k][1]))
                  ELSE << <<Append(path, entries[k][1]), entries[k][2]>> >>)
                 \o Loop(k + 1)
    IN Loop(1)

\* what flattenObject stores for a leaf: an array joined by commas, any other
\* leaf itself
StoredLeaf(value) ==
    IF value.t = "array" THEN Str(ArrayJoin(value.v)) ELSE value

\* C12: flatten key uniqueness.  For every input object and separator,
\* flattenObject maps distinct leaves of the input (distinct ancestor-key
\* paths) to distinct keys, so the flat record has exactly one entry per leaf
\* and holds every leaf's value.
C12_FlattenKeyUnique ==
    pc = "flattened"
    => LET leaves == LeafPaths(jsonInput, <<>>)
       IN /\ Len(jsonOutput.v) = Len(leaves)
          /\ \A k \in 1..Len(leaves) :
                \E j \in 1..Len(jsonOutput.v) :
                    jsonOutput.v[j][2] = StoredLeaf(leaves[k][2])

-----------------------------------------------------------------------------
(* Nested-key conflict of the decoder, checked under SpecDecode. *)

\* the schema line whose second key a.b lies under its first key a
ConflictHeader == SchemaTag \o <<"|", "a", "|", "a", ".", "b", NewLine>>

\* the text in toonInput has the keys a and a.b, the default separator, and
\* at least one data row
HasNestedConflict ==
    /\ StartsWith(toonInput, ConflictHeader)
    /\ NestedSeparatorOf(options) = "."
    /\ Len(DataRows(toonInput)) > 0

\* C13: nested-key conflict in the decoder.  When setNestedValue gets a key
\* path whose intermediate segment already holds a scalar assigned by an
\* earlier key of the same row, the scalar is replaced by a fresh empty
\* object, the new value is stored at the final segment, and no error is
\* raised: a row under the keys a and a.b decodes to {a: {b: second value}}.
C13_NestedConflict ==
    (pc # "parse" /\ HasNestedConflict)
    => /\ pc = "parsed"
       /\ outputFormat = "array" =>
            LET rows == DataRows(toonInput)
            IN /\ Len(jsonOutput.v) = Len(rows)
               /\ \A r \in 1..Len(rows) :
                     LET tokens == parseDelimitedLine(rows[r], DelimiterOf(options))
                         second == IF Len(tokens) >= 2 THEN tokens[2] ELSE <<>>
                     IN jsonOutput.v[r] =
                          Obj(<< << <<"a">>,
                                    Obj(<< << <<"b">>,
                                              Coerce(second, options.parseNumbers,
                                                     options.parseBooleans) >> >>) >> >>)

-----------------------------------------------------------------------------
(* SpecCoerce: one raw field through the row loop of parseToon. *)

\* the characters of a raw field: two digits, a blank and a letter
RawChars == {"1", "0", " ", "a"}

\* "True": the word true in another case
StrTrueCapital == <<"T", "r", "u", "e">>

\* the raw fields: short strings, the two boolean words, and near misses
RawFields ==
    UNION {[1..m -> RawChars] : m \in 0..MaxValLen}
    \cup {StrTrue, StrFalse, StrTrueCapital, StrTrue \o <<" ">>}

InitCoerce ==
    /\ pc = "coerce"
    /\ node = "ToonToJson"
    /\ toonInput \in RawFields
    /\ options \in {OptionsOf("", TRUE, n, b) : n \in BOOLEAN, b \in BOOLEAN}
    /\ outputFormat = "object"
    /\ operation = ""
    /\ jsonInput = NoValue
    /\ toonOutput = NoValue
    /\ jsonOutput = NoValue
    /\ jsonStr = <<>>
    /\ toonStr = <<>>
    /\ tokenSavingsEstimate = <<>>
    /\ items = <<>>
    /\ continueOnFail = FALSE
    /\ i = 0
    /\ returnData = <<>>
    /\ thrown = NoValue

\* parseToon lines 92-111 for the data line toonInput under the one key a
CoerceField ==
    /\ pc = "coerce"
    /\ jsonOutput' = ParseRow(toonInput, << <<"a">> >>, DelimiterOf(options),
                              NestedSeparatorOf(options), options.parseNumbers,
                              options.parseBooleans)
    /\ pc' = "coerced"
    /\ UNCHANGED <<node, operation, jsonInput, options, outputFormat, toonOutput,
                   toonInput, jsonStr, toonStr, tokenSavingsEstimate, items,
                   continueOnFail, i, returnData, thrown>>

NextCoerce == CoerceField

SpecCoerce == InitCoerce /\ [][NextCoerce]_vars

\* the record {a: value}
RecordA(value) == Obj(<< << <<"a">>, value >> >>)

\* C14: type coercion order in the decoder.  For every raw field string s and
\* every combination of parseNumbers and parseBooleans the stored value is
\* Number(s) if parseNumbers is on, s is non-empty and Number(s) is not NaN;
\* otherwise the boolean if parseBooleans is on and s is exactly "true" or
\* "false"; otherwise s unchanged.  "true" with both flags on is stored as
\* the boolean true, the empty string always stays the empty string, and a
\* word in another case or with a blank after it is no boolean.
C14_CoercionOrder ==
    pc = "coerced"
    => LET s == toonInput
           n == options.parseNumbers
           b == options.parseBooleans
       IN /\ jsonOutput =
               RecordA(IF n /\ Len(s) > 0 /\ NumberOf(s) # NaN THEN NumberOf(s)
                       ELSE IF b /\ s \in {StrTrue, StrFalse} THEN Bool(s = StrTrue)
                       ELSE Str(s))
          /\ (s = StrTrue /\ n /\ b) => jsonOutput = RecordA(Bool(TRUE))
          /\ s = <<>> => jsonOutput = RecordA(Str(<<>>))
          /\ (s = <<"1", "0">> /\ n) => jsonOutput = RecordA(Num(10))
          /\ (s = <<" ">> /\ n) => jsonOutput = RecordA(Num(0))
          /\ s \in {StrTrueCapital, StrTrue \o <<" ">>} => jsonOutput = RecordA(Str(s))
          /\ (s = StrFalse /\ ~b) => jsonOutput = RecordA(Str(s))

\* the word true has been stored as the boolean with both flags on, where the
\* numeric test came first and failed
C14_Witness ==
    /\ pc = "coerced"
    /\ toonInput = StrTrue
    /\ options.parseNumbers
    /\ options.parseBooleans
    /\ jsonOutput = RecordA(Bool(TRUE))

-----------------------------------------------------------------------------
(* Line counts of the encoder's output, checked under Spec. *)

\* the encoder returned a text for an array of at least one element, all of
\* them objects
IsRecordArrayRun ==
    /\ pc \in {"converted", "parsed"}
    /\ operation = "convertArray"
    /\ jsonInput.t = "array"
    /\ Len(jsonInput.v) > 0
    /\ \A k \in 1..Len(jsonInput.v) : jsonInput.v[k].t = "object"

\* C15: array-mode line count.  For every non-empty array of n elements the
\* text of convertArrayToToon is the optional schema line followed by exactly
\* n data lines, one per element in array order, each with as many
\* delimiter-separated fields as the first element has top-level keys, a
\* missing, null or undefined field being the empty string.
C15_ArrayLineCount ==
    IsRecordArrayRun
    => LET d == DelimiterOf(options)
           n == Len(jsonInput.v)
           keys == KeyList(OwnEntries(jsonInput.v[1].v))
           lines == Split(toonOutput.v, NewLine)
           data == IF options.includeSchema THEN Tail(lines) ELSE lines
       IN /\ Len(lines) = n + (IF options.includeSchema THEN 1 ELSE 0)
          /\ options.includeSchema => lines[1] \o <<NewLine>> = SchemaLine(keys, d)
          /\ \A r \in 1..n :
                LET fields == parseDelimitedLine(data[r], d)
                IN /\ Len(fields) = Len(keys)
                   /\ \A k \in 1..Len(keys) :
                         GetProp(jsonInput.v[r], keys[k]).t \in {"null", "undefined"}
                         => fields[k] = <<>>

\* C16: object-mode line count.  For every input object and configuration
\* the text of convertObjectToToon is the optional single schema line
\* followed by exactly one data line: split on the newline, as written or
\* after the decoder's trim, it has 2 lines with includeSchema and 1 line
\* without.
C16_ObjectLineCount ==
    (pc \in {"converted", "parsed"} /\ operation = "convertObject"
     /\ jsonInput.t = "object")
    => LET expected == IF options.includeSchema THEN 2 ELSE 1
       IN \/ Len(ToonLines(toonOutput.v)) = expected
          \/ Len(Split(toonOutput.v, NewLine)) = expected

=============================================================================
